---- MODULE Spec2Model ----
(***************************************************************************)
(* The cube-state and move-animation engine of src/components/RubiksCube.tsx *)
(* (component RubiksCube): 27 cubies, the pivot, the move queue, the       *)
(* history, the per-frame animation loop (useFrame) and the exposed        *)
(* methods scramble, solve, reset and getHistoryLength.                    *)
(*                                                                         *)
(* Numbers.  Angles are fixed-point, in hundredths of a radian: the speeds *)
(* 0.25 and 0.65 are 25 and 65, Math.PI / 2 is 157.  delta * 60 is a whole *)
(* number of 60 Hz frames.  Cubie positions are grid units; a cubie's      *)
(* rotation is its Euler triple (order XYZ) in quarter turns, which is     *)
(* what the snap of detachFromPivot leaves in it.                          *)
(***************************************************************************)
EXTENDS Integers, Sequences, FiniteSets

VARIABLES
    cubies,         \* id -> [position, rotation, parent]: the 27 Object3D
    pivotRotation,  \* pivotRef.current.rotation, <<x, y, z>> in 1/100 rad
    moveQueue,      \* moveQueue.current
    history,        \* history.current
    isAnimating,    \* isAnimating.current
    currentMove,    \* currentMove.current (NoMove is null)
    progress,       \* progress.current, 1/100 rad
    speed,          \* speed.current, 1/100 rad per frame
    intervals,      \* number of live setInterval timers (unresolved promises)
    lastCall,       \* the exposed method called last by the host
    nGenerated,     \* number of moves scramble has generated so far
    moveCount       \* the host's moveCount, set by its onMoveComplete callback

vars == <<cubies, pivotRotation, moveQueue, history, isAnimating, currentMove,
          progress, speed, intervals, lastCall, nGenerated, moveCount>>

\* ------------------------------------------------------------------ bounds

\* Total number of moves all scramble calls together may generate.
MaxMoves == 2

\* Largest number of polling timers alive at once.
MaxIntervals == 2

\* Largest elapsed time of one tick, in 60 Hz frames (delta * 60).
MaxDeltaFrames == 2

\* --------------------------------------------------------------- constants

ANIMATION_SPEED_NORMAL == 25

ANIMATION_SPEED_FAST == 65

\* Math.PI / 2
HALF_PI == 157

\* the retry loop of scramble: attempt < 5
MAX_ATTEMPTS == 5

Axes == {"x", "y", "z"}

Layers == {-1, 0, 1}

Dirs == {1, -1}

Moves == [axis : Axes, layer : Layers, dir : Dirs]

\* currentMove.current = null, lastMove = null, move = null
NoMove == [axis |-> "none", layer |-> 0, dir |-> 0]

Ids == 0 .. 26

ZeroRotation == <<0, 0, 0>>

Abs(n) == IF n < 0 THEN -n ELSE n

AxisIndex(axis) == CASE axis = "x" -> 1 [] axis = "y" -> 2 [] axis = "z" -> 3

\* ------------------------------------------------------------ the registry

\* initialPositions: id counts up through x, then y, then z, each from -1 to 1.
initialPositions ==
    [id \in Ids |-> <<(id \div 9) - 1, ((id \div 3) % 3) - 1, (id % 3) - 1>>]

\* The cubies as mounted: <Cubie position={p}/> children of groupRef, unrotated.
InitialCubies ==
    [id \in Ids |-> [position |-> initialPositions[id],
                     rotation |-> ZeroRotation,
                     parent   |-> "group"]]

\* ----------------------------------------------- rotations, in quarter turns

CosQ(q) == CASE q % 4 = 0 -> 1 [] q % 4 = 1 -> 0 [] q % 4 = 2 -> -1 [] q % 4 = 3 -> 0

SinQ(q) == CASE q % 4 = 0 -> 0 [] q % 4 = 1 -> 1 [] q % 4 = 2 -> 0 [] q % 4 = 3 -> -1

\* Math.atan2(y, x) in quarter turns, for the arguments a rotation matrix of
\* quarter turns gives: one of them 0, the other 1 or -1.  atan2(0, -1) is a
\* half turn; the sign a float zero gives it does not change the rotation.
Atan2Q(y, x) ==
    CASE y = 0 /\ x > 0 -> 0
      [] y > 0 /\ x = 0 -> 1
      [] y = 0 /\ x < 0 -> 2
      [] y < 0 /\ x = 0 -> -1

\* Matrix4.makeRotationFromEuler, order XYZ, as rows of the 3x3 block.
EulerToMatrix(e) ==
    LET a == CosQ(e[1])  b == SinQ(e[1])
        c == CosQ(e[2])  d == SinQ(e[2])
        ee == CosQ(e[3]) f == SinQ(e[3])
    IN  << << c * ee,              -(c * f),              d        >>,
           << a * f + b * ee * d,  a * ee - b * f * d,    -(b * c) >>,
           << b * f - a * ee * d,  b * ee + a * f * d,    a * c    >> >>

\* Euler.setFromRotationMatrix, order XYZ; |m13| < 0.9999999 is m13 = 0 here.
MatrixToEuler(m) ==
    IF m[1][3] = 0
    THEN << Atan2Q(-m[2][3], m[3][3]), m[1][3], Atan2Q(-m[1][2], m[1][1]) >>
    ELSE << Atan2Q(m[3][2], m[2][2]), m[1][3], 0 >>

\* Row r of a matrix times the matrix B.
RowTimes(r, B) ==
    << r[1] * B[1][1] + r[2] * B[2][1] + r[3] * B[3][1],
       r[1] * B[1][2] + r[2] * B[2][2] + r[3] * B[3][2],
       r[1] * B[1][3] + r[2] * B[2][3] + r[3] * B[3][3] >>

MatMul(A, B) == << RowTimes(A[1], B), RowTimes(A[2], B), RowTimes(A[3], B) >>

MatVec(A, v) ==
    << A[1][1] * v[1] + A[1][2] * v[2] + A[1][3] * v[3],
       A[2][1] * v[1] + A[2][2] * v[2] + A[2][3] * v[3],
       A[3][1] * v[1] + A[3][2] * v[2] + A[3][3] * v[3] >>

\* The pivot's world matrix when its rotation is a whole number of quarter
\* turns about one axis (the angle is progress * -dir with progress = PI / 2,
\* or zero).  The group and the pivot sit unrotated at the origin.
PivotMatrix(rot) ==
    EulerToMatrix(<<rot[1] \div HALF_PI, rot[2] \div HALF_PI, rot[3] \div HALF_PI>>)

\* --------------------------------------------------------- logic helpers

\* getCubiesInLayer: the children of groupRef named cubie-* whose coordinate
\* along axis is within epsilon = 0.1 of layer.
getCubiesInLayer(cs, axis, layer) ==
    {id \in Ids : /\ cs[id].parent = "group"
                  /\ Abs(cs[id].position[AxisIndex(axis)] - layer) * 10 < 1}

\* pivotRef.current.children
PivotChildren(cs) == {id \in Ids : cs[id].parent = "pivot"}

\* attachToPivot: the pivot's rotation is zeroed, then pivot.attach(cubie)
\* moves each cubie under the pivot keeping its world transform.  The pivot's
\* world matrix is the identity then, so position is unchanged and rotation
\* is read back from the cubie's matrix.
attachToPivot(cs, ids) ==
    [cubies |->
        [id \in Ids |->
            IF id \in ids
            THEN [position |-> cs[id].position,
                  rotation |-> MatrixToEuler(EulerToMatrix(cs[id].rotation)),
                  parent   |-> "pivot"]
            ELSE cs[id]],
     pivotRotation |-> ZeroRotation]

\* detachFromPivot: group.attach(cubie) moves the cubie back under the group
\* keeping its world transform (pivot matrix times local matrix), then position
\* and rotation are rounded to the grid and to quarter turns.  rot is the
\* pivot's rotation at the call, a quarter turn about one axis.
detachFromPivot(cs, ids, rot) ==
    LET pivotWorld == PivotMatrix(rot)
    IN  [id \in Ids |->
            IF id \in ids
            THEN [position |-> MatVec(pivotWorld, cs[id].position),
                  rotation |-> MatrixToEuler(MatMul(pivotWorld,
                                                    EulerToMatrix(cs[id].rotation))),
                  parent   |-> "group"]
            ELSE cs[id]]

\* pivot.rotation.set(0,0,0) and then the component of move.axis = angle.
SetAngle(axis, angle) ==
    << IF axis = "x" THEN angle ELSE 0,
       IF axis = "y" THEN angle ELSE 0,
       IF axis = "z" THEN angle ELSE 0 >>

\* ------------------------------------------------------------------- Init

Init ==
    /\ cubies = InitialCubies
    /\ pivotRotation = ZeroRotation
    /\ moveQueue = <<>>
    /\ history = <<>>
    /\ isAnimating = FALSE
    /\ currentMove = NoMove
    /\ progress = 0
    /\ speed = ANIMATION_SPEED_NORMAL
    /\ intervals = 0
    /\ lastCall = "none"
    /\ nGenerated = 0
    /\ moveCount = 0

\* --------------------------------------------------------- animation loop

\* Mutant of Shift: the move is taken from the back of the queue (pop).
ShiftFromBack(q) == [move |-> q[Len(q)], rest |-> SubSeq(q, 1, Len(q) - 1)]

\* Mutant of Shift: the move is read and left at the head of the queue.
ShiftKeepsHead(q) == [move |-> Head(q), rest |-> q]

\* moveQueue.current.shift()
Shift(q) == [move |-> Head(q), rest |-> Tail(q)]

\* Mutant of FinishMove: the pivot keeps the rotation of the finished move.
FinishMoveKeepsRotation(cs, rot) ==
    [cubies |-> detachFromPivot(cs, PivotChildren(cs), rot),
     pivotRotation |-> rot]

\* The finish branch of useFrame: every child of the pivot is detached and
\* snapped, the pivot's rotation is zeroed.
FinishMove(cs, rot) ==
    [cubies |-> detachFromPivot(cs, PivotChildren(cs), rot),
     pivotRotation |-> ZeroRotation]

\* Mutant of RemainingEstimate: the history length alone is reported.
RemainingEstimateHistoryOnly(h, q) == Len(h)

\* The argument of the progress callback:
\* history.current.length + moveQueue.current.length
RemainingEstimate(h, q) == Len(h) + Len(q)

\* The host's callback, onMoveComplete={(count) => setMoveCount(count)}: the
\* value moveCount takes.
onMoveComplete(count) == count

\* useFrame((state, delta) => ...), with delta * 60 = deltaFrames.
useFrame(deltaFrames) ==
    IF ~isAnimating
    THEN IF Len(moveQueue) > 0
         THEN LET move == Shift(moveQueue).move
                  attached == attachToPivot(cubies,
                                  getCubiesInLayer(cubies, move.axis, move.layer))
              IN  /\ moveQueue' = Shift(moveQueue).rest
                  /\ currentMove' = move
                  /\ isAnimating' = TRUE
                  /\ progress' = 0
                  /\ cubies' = attached.cubies
                  /\ pivotRotation' = attached.pivotRotation
                  /\ UNCHANGED <<history, speed, intervals, lastCall, nGenerated, moveCount>>
         ELSE UNCHANGED vars
    ELSE IF currentMove # NoMove
         THEN LET move == currentMove
                  step == speed * deltaFrames
                  finished == progress + step >= HALF_PI
                  newProgress == IF finished THEN HALF_PI ELSE progress + step
                  rot == SetAngle(move.axis, newProgress * (-move.dir))
                  done == FinishMove(cubies, rot)
              IN  /\ progress' = newProgress
                  /\ IF finished
                     THEN /\ cubies' = done.cubies
                          /\ pivotRotation' = done.pivotRotation
                          /\ isAnimating' = FALSE
                          /\ currentMove' = NoMove
                          /\ moveCount' =
                                 onMoveComplete(RemainingEstimate(history, moveQueue))
                     ELSE /\ pivotRotation' = rot
                          /\ UNCHANGED <<cubies, isAnimating, currentMove, moveCount>>
                  /\ UNCHANGED <<moveQueue, history, speed, intervals, lastCall,
                                 nGenerated>>
         ELSE UNCHANGED vars

\* One rendered frame.
Tick == \E deltaFrames \in 0 .. MaxDeltaFrames : useFrame(deltaFrames)

\* --------------------------------------------------------- exposed methods

\* Mutant of IsImmediateUndo: no draw is taken to be an immediate undo.
IsImmediateUndoNever(lastMove, m) == FALSE

\* The test of "Avoid immediate undo".
IsImmediateUndo(lastMove, m) ==
    /\ lastMove # NoMove
    /\ lastMove.axis = m.axis
    /\ lastMove.layer = m.layer
    /\ lastMove.dir = -m.dir

\* Mutant of FallbackMove: another fixed move.
FallbackMoveOther == [axis |-> "y", layer |-> 0, dir |-> 1]

\* The fallback move of scramble.
FallbackMove == [axis |-> "x", layer |-> 1, dir |-> 1]

\* The retry loop: cand[attempt + 1] is the random move drawn at attempt.
RECURSIVE TryAttempts(_, _, _)
TryAttempts(lastMove, cand, attempt) ==
    IF attempt >= MAX_ATTEMPTS
    THEN NoMove
    ELSE IF IsImmediateUndo(lastMove, cand[attempt + 1])
         THEN TryAttempts(lastMove, cand, attempt + 1)
         ELSE cand[attempt + 1]

\* One pass of the body of the for loop over i: the move pushed.
GenerateMove(lastMove, cand) ==
    LET move == TryAttempts(lastMove, cand, 0)
    IN  IF move = NoMove THEN FallbackMove ELSE move

\* The moves the for loop pushes, draws[i] being the random draws of pass i.
RECURSIVE GenerateMoves(_, _, _)
GenerateMoves(lastMove, draws, i) ==
    IF i > Len(draws)
    THEN <<>>
    ELSE LET move == GenerateMove(lastMove, draws[i])
         IN  <<move>> \o GenerateMoves(move, draws, i + 1)

\* Whether pass i ends in the fallback (move is still null after the retry
\* loop), for each pass of the for loop.
RECURSIVE FallbackFlags(_, _, _)
FallbackFlags(lastMove, draws, i) ==
    IF i > Len(draws)
    THEN <<>>
    ELSE <<TryAttempts(lastMove, draws[i], 0) = NoMove>>
            \o FallbackFlags(GenerateMove(lastMove, draws[i]), draws, i + 1)

\* The random draws of one pass.  Whatever Math.random returns, the pass ends
\* with the first draw that is no immediate undo, or with the fallback when
\* all draws are the immediate undo; drawing the same move at each attempt
\* reaches both ends for every move.
CandidateDraws == {[attempt \in 1 .. MAX_ATTEMPTS |-> m] : m \in Moves}

\* Mutant of BatchSpeed: a batch keeps the speed it finds.
BatchSpeedUnchanged(current) == current

\* speed.current = ANIMATION_SPEED_FAST at the start of scramble and of solve.
BatchSpeed(current) == ANIMATION_SPEED_FAST

\* moveQueue.current = [] at the start of scramble.
ScrambleStartQueue(q) == <<>>

\* scramble(count), the part that runs before the promise is returned.
scramble(count, draws) ==
    LET lastMove == IF Len(history) > 0 THEN history[Len(history)] ELSE NoMove
        generated == GenerateMoves(lastMove, draws, 1)
    IN  /\ moveQueue' = ScrambleStartQueue(moveQueue) \o generated
        /\ history' = history \o generated
        /\ speed' = BatchSpeed(speed)
        /\ intervals' = intervals + 1
        /\ lastCall' = "scramble"
        /\ nGenerated' = nGenerated + count
        /\ UNCHANGED <<cubies, pivotRotation, isAnimating, currentMove, progress,
                       moveCount>>

Scramble ==
    /\ intervals < MaxIntervals
    /\ \E count \in 0 .. (MaxMoves - nGenerated) :
          \E draws \in [1 .. count -> CandidateDraws] : scramble(count, draws)

\* Mutant of InverseMove: the direction is not negated.
InverseMoveKeepsDir(m) == [axis |-> m.axis, layer |-> m.layer, dir |-> m.dir]

\* m => ({...m, dir: m.dir * -1})
InverseMove(m) == [axis |-> m.axis, layer |-> m.layer, dir |-> m.dir * (-1)]

\* Mutant of movesToSolve: the history is not reversed.
movesToSolveNotReversed(h) == [i \in 1 .. Len(h) |-> InverseMove(h[i])]

\* [...history.current].reverse().map(...)
movesToSolve(h) == [i \in 1 .. Len(h) |-> InverseMove(h[Len(h) + 1 - i])]

\* Mutant of SolveQueue: the undo moves replace the pending moves.
SolveQueueReplaces(q, h) == movesToSolve(h)

\* moveQueue.current = [...moveQueue.current, ...movesToSolve]
SolveQueue(q, h) == q \o movesToSolve(h)

\* Mutant of solve: the history is not cleared.
solveKeepsHistory ==
    IF Len(history) = 0
    THEN /\ lastCall' = "solve"
         /\ UNCHANGED <<cubies, pivotRotation, moveQueue, history, isAnimating,
                        currentMove, progress, speed, intervals, nGenerated, moveCount>>
    ELSE /\ speed' = BatchSpeed(speed)
         /\ moveQueue' = SolveQueue(moveQueue, history)
         /\ intervals' = intervals + 1
         /\ lastCall' = "solve"
         /\ UNCHANGED <<cubies, pivotRotation, history, isAnimating, currentMove,
                        progress, nGenerated, moveCount>>

\* Mutant of solve: no early return on an empty history.
solveWithoutEmptyCheck ==
    /\ speed' = BatchSpeed(speed)
    /\ history' = <<>>
    /\ moveQueue' = SolveQueue(moveQueue, history)
    /\ intervals' = intervals + 1
    /\ lastCall' = "solve"
    /\ UNCHANGED <<cubies, pivotRotation, isAnimating, currentMove, progress,
                   nGenerated, moveCount>>

\* solve()
solve ==
    IF Len(history) = 0
    THEN /\ lastCall' = "solve"
         /\ UNCHANGED <<cubies, pivotRotation, moveQueue, history, isAnimating,
                        currentMove, progress, speed, intervals, nGenerated, moveCount>>
    ELSE /\ speed' = BatchSpeed(speed)
         /\ history' = <<>>
         /\ moveQueue' = SolveQueue(moveQueue, history)
         /\ intervals' = intervals + 1
         /\ lastCall' = "solve"
         /\ UNCHANGED <<cubies, pivotRotation, isAnimating, currentMove, progress,
                        nGenerated, moveCount>>

Solve == (Len(history) = 0 \/ intervals < MaxIntervals) /\ solve

\* Mutant of reset: History is not cleared.
resetKeepsHistory ==
    /\ moveQueue' = <<>>
    /\ isAnimating' = FALSE
    /\ currentMove' = NoMove
    /\ pivotRotation' = ZeroRotation
    /\ lastCall' = "reset"
    /\ UNCHANGED <<cubies, history, progress, speed, intervals, nGenerated, moveCount>>

\* Mutant of reset: the pivot keeps its rotation.
resetKeepsPivotRotation ==
    /\ moveQueue' = <<>>
    /\ history' = <<>>
    /\ isAnimating' = FALSE
    /\ currentMove' = NoMove
    /\ lastCall' = "reset"
    /\ UNCHANGED <<cubies, pivotRotation, progress, speed, intervals, nGenerated,
                   moveCount>>

\* reset()
reset ==
    /\ moveQueue' = <<>>
    /\ history' = <<>>
    /\ isAnimating' = FALSE
    /\ currentMove' = NoMove
    /\ pivotRotation' = ZeroRotation
    /\ lastCall' = "reset"
    /\ UNCHANGED <<cubies, progress, speed, intervals, nGenerated, moveCount>>

Reset == reset

\* getHistoryLength()
getHistoryLength == Len(history)

\* Mutant of BatchDone: the timer looks at the queue only.
BatchDoneQueueOnly(q, animating) == Len(q) = 0

\* The test of the polling timer:
\* moveQueue.current.length === 0 && !isAnimating.current
BatchDone(q, animating) == Len(q) = 0 /\ ~animating

\* One firing of a polling timer set by scramble or solve: when the queue is
\* empty and nothing animates it clears itself, restores the speed and
\* resolves its promise.
Poll ==
    /\ intervals > 0
    /\ IF BatchDone(moveQueue, isAnimating)
       THEN /\ intervals' = intervals - 1
            /\ speed' = ANIMATION_SPEED_NORMAL
            /\ UNCHANGED <<cubies, pivotRotation, moveQueue, history, isAnimating,
                           currentMove, progress, lastCall, nGenerated, moveCount>>
       ELSE UNCHANGED vars

\* ---------------------------------------------------------- specifications

\* Any host: the methods are called at any time.
Next == Tick \/ Scramble \/ Solve \/ Reset \/ Poll

Spec == Init /\ [][Next]_vars

\* A host that awaits each scramble and solve before its next call and never
\* calls reset.
AwaitedScramble == intervals = 0 /\ Scramble

AwaitedSolve == intervals = 0 /\ Solve

NextAwaited == Tick \/ AwaitedScramble \/ AwaitedSolve \/ Poll

SpecAwaited == Init /\ [][NextAwaited]_vars

\* A host that starts from the solved cube, calls scramble once, calls solve
\* only while moves are pending or in flight, and never calls reset.
OnlyScramble == lastCall = "none" /\ Scramble

OverlappingSolve == (Len(moveQueue) > 0 \/ isAnimating) /\ Solve

NextOverlap == Tick \/ OnlyScramble \/ OverlappingSolve \/ Poll

SpecOverlap == Init /\ [][NextOverlap]_vars

\* A tick with a positive elapsed time.
TickPositive == \E deltaFrames \in 1 .. MaxDeltaFrames : useFrame(deltaFrames)

\* The states in which a tick with a positive elapsed time changes the state
\* (a move is dequeued or progress advances), and those in which a timer firing
\* does (the timer clears itself).
TickPositiveEnabled == isAnimating \/ Len(moveQueue) > 0

PollEnabled == intervals > 0 /\ BatchDone(moveQueue, isAnimating)

\* The awaiting host, with a render loop that keeps delivering ticks with a
\* positive elapsed time and polling timers that keep firing: weak fairness of
\* TickPositive and of Poll, WF_vars(A) written out as
\* []<>~ENABLED <<A>>_vars \/ []<><<A>>_vars with the enabling predicates above.
SpecAwaitedFair ==
    /\ Init /\ [][NextAwaited]_vars
    /\ ([]<>~TickPositiveEnabled \/ []<><<TickPositive>>_vars)
    /\ ([]<>~PollEnabled \/ []<><<Poll>>_vars)

\* ------------------------------------------------- vocabulary of the claims

\* A settled state: IDLE with an empty queue.
Settled == ~isAnimating /\ Len(moveQueue) = 0

\* The move m applied to the settled cube cs: the cubies whose coordinate along
\* m.axis is m.layer are turned about that axis by a quarter turn of -m.dir,
\* position and orientation; the others stay.
ApplyMove(cs, m) ==
    LET turn == EulerToMatrix(SetAngle(m.axis, -m.dir))
    IN  [id \in Ids |->
            IF cs[id].position[AxisIndex(m.axis)] = m.layer
            THEN [position |-> MatVec(turn, cs[id].position),
                  rotation |-> MatrixToEuler(MatMul(turn, EulerToMatrix(cs[id].rotation))),
                  parent   |-> "group"]
            ELSE cs[id]]

\* The engine's own run of one move on the cube cs, from the attachment of the
\* layer to the finish: the layer found by getCubiesInLayer is attached to the
\* pivot, the pivot turned to the full quarter turn, its children detached.
CompleteMove(cs, m) ==
    FinishMove(attachToPivot(cs, getCubiesInLayer(cs, m.axis, m.layer)).cubies,
               SetAngle(m.axis, HALF_PI * (-m.dir))).cubies

RECURSIVE ApplyMoves(_, _)
ApplyMoves(cs, ms) ==
    IF Len(ms) = 0 THEN cs ELSE ApplyMoves(ApplyMove(cs, Head(ms)), Tail(ms))

\* Move b is the exact inverse of move a: same axis and layer, opposite
\* direction.
IsInverseOf(a, b) == a.axis = b.axis /\ a.layer = b.layer /\ a.dir + b.dir = 0

\* The step is a call of scramble, or of solve with a non-empty history: the
\* calls that set a polling timer.
ScrambleCallStep == lastCall' = "scramble" /\ intervals' = intervals + 1

SolveCallStep == lastCall' = "solve" /\ intervals' = intervals + 1

\* The step starts a move (IDLE to ANIMATING) or completes one.
StartStep == ~isAnimating /\ isAnimating'

FinishStep == isAnimating /\ ~isAnimating' /\ progress' = HALF_PI /\ cubies' # cubies

\* ------------------------------------------------------------------ claims

\* C1: from the solved cube, once scramble(N), N >= 1, has drained and a solve()
\* called after it has drained too, every cubie is back at its solved position
\* and orientation and getHistoryLength() is 0.
C1_ScrambleSolveRoundTrip ==
    (lastCall = "solve" /\ Settled) =>
        (cubies = InitialCubies /\ getHistoryLength = 0)

\* C1 witness: moves were scrambled, solve was the last call, the queue has
\* drained and the promise of solve has resolved.
C1_Witness ==
    /\ lastCall = "solve"
    /\ Settled
    /\ intervals = 0
    /\ nGenerated >= 2
    /\ progress = HALF_PI

\* C2: in every settled state reached by awaited scramble and solve calls, the
\* cube is the solved cube with the moves of History applied in order.
C2_HistoryIsPathFromSolved ==
    Settled => cubies = ApplyMoves(InitialCubies, history)

\* C2 witness: a settled, scrambled cube with two moves in History and every
\* promise resolved.
C2_Witness ==
    /\ Settled
    /\ intervals = 0
    /\ Len(history) >= 2
    /\ cubies # InitialCubies

\* C3: whenever no move is animating, the 27 cubies occupy 27 distinct triples
\* of {-1,0,1}^3.
C3_PositionUniqueness ==
    ~isAnimating =>
        /\ \A i \in Ids : \A k \in 1 .. 3 : cubies[i].position[k] \in Layers
        /\ \A i, j \in Ids : i # j => cubies[i].position # cubies[j].position

\* C4: whenever no move is animating, getCubiesInLayer returns exactly 9 cubies
\* for every axis and every layer.
C4_LayerCompleteness ==
    ~isAnimating =>
        \A axis \in Axes : \A layer \in Layers :
            Cardinality(getCubiesInLayer(cubies, axis, layer)) = 9

\* C5: moves leave the queue from its front, one at a time, and are the moves
\* applied: a step that starts a move takes the head of the queue as the move
\* in flight and leaves the rest of the queue in order; the move in flight is
\* not replaced while it animates; and the step that completes it turns the
\* cubies of the pivot by the quarter turn of that move.
C5_FifoOrdering ==
    [][ /\ StartStep =>
             /\ Len(moveQueue) > 0
             /\ currentMove' = moveQueue[1]
             /\ moveQueue' = SubSeq(moveQueue, 2, Len(moveQueue))
        /\ (isAnimating /\ isAnimating') =>
             /\ currentMove' = currentMove
             /\ cubies' = cubies
        /\ FinishStep =>
             /\ currentMove \in Moves
             /\ currentMove' = NoMove
             /\ \A id \in PivotChildren(cubies) :
                    cubies'[id].position =
                        MatVec(EulerToMatrix(SetAngle(currentMove.axis, -currentMove.dir)),
                               cubies[id].position)
      ]_vars

\* C5 witness: of a queue of two different moves the first has completed and
\* the second is in flight.
C5_Witness ==
    /\ isAnimating
    /\ Len(history) = 2
    /\ history[1] # history[2]
    /\ Len(moveQueue) = 0
    /\ currentMove = history[2]
    /\ lastCall = "scramble"
    /\ cubies # attachToPivot(InitialCubies,
                   getCubiesInLayer(InitialCubies, currentMove.axis,
                                    currentMove.layer)).cubies

\* C6: the pivot holds no cubie when the engine is IDLE and exactly the 9 cubies
\* of the layer of the move in flight when it is ANIMATING.
C6_PivotExclusivity ==
    IF ~isAnimating
    THEN PivotChildren(cubies) = {}
    ELSE /\ Cardinality(PivotChildren(cubies)) = 9
         /\ \A id \in PivotChildren(cubies) :
                cubies[id].position[AxisIndex(currentMove.axis)] = currentMove.layer

\* C7: the pivot's rotation is the identity whenever the engine is IDLE, and at
\* the instant a layer is attached (ANIMATING with progress 0).
C7_PivotRotationIdentity ==
    /\ ~isAnimating => pivotRotation = ZeroRotation
    /\ (isAnimating /\ progress = 0) => pivotRotation = ZeroRotation

\* C7 witness: a first move has completed and the layer of a second one has
\* just been attached.
C7_Witness ==
    /\ isAnimating
    /\ progress = 0
    /\ Len(history) = 2
    /\ Len(moveQueue) = 0
    /\ \E id \in Ids : cubies[id].position # initialPositions[id]

C9_SolveAppendsInverses ==
    [][ /\ SolveCallStep =>
             /\ Len(history) >= 1
             /\ history' = <<>>
             /\ Len(moveQueue') = Len(moveQueue) + Len(history)
             /\ \A i \in 1 .. Len(moveQueue) : moveQueue'[i] = moveQueue[i]
             /\ \A i \in 1 .. Len(history) :
                    LET m == history[Len(history) + 1 - i]
                        u == moveQueue'[Len(moveQueue) + i]
                    IN  u.axis = m.axis /\ u.layer = m.layer /\ u.dir = -m.dir
        /\ Len(history') > Len(history) => ScrambleCallStep
      ]_vars

\* C9 witness: solve() was called with two moves in History while the second
\* was still pending: the queue holds it and the two undo moves.
C9_Witness ==
    /\ lastCall = "solve"
    /\ Len(history) = 0
    /\ Len(moveQueue) = 3
    /\ isAnimating
    /\ moveQueue[2] = InverseMove(moveQueue[1])
    /\ moveQueue[3] = InverseMove(currentMove)
    /\ moveQueue[3] # moveQueue[2]

\* C10: scramble(N) appends the same N moves to History and to the queue, and
\* the moves pending in the queue before the call are still pending after it.
C10_ScrambleIsPureAppend ==
    [][ ScrambleCallStep =>
            LET n == Len(history') - Len(history)
                new == SubSeq(history', Len(history) + 1, Len(history'))
            IN  /\ n >= 0
                /\ history' = history \o new
                /\ moveQueue' = moveQueue \o new
      ]_vars

\* C11: of two consecutive moves generated by one scramble call, the second is
\* never the exact inverse of the first, unless the second was pushed by the
\* fallback after the retry loop was exhausted: whatever draws produce the
\* moves the call appends, a pass that did not end in the fallback pushed no
\* inverse of the move pushed before it.
C11_NoImmediateUndoInScramble ==
    [][ ScrambleCallStep =>
            LET lastMove == IF Len(history) > 0 THEN history[Len(history)] ELSE NoMove
                new == SubSeq(history', Len(history) + 1, Len(history'))
                producing == {draws \in [1 .. Len(new) -> CandidateDraws] :
                                 GenerateMoves(lastMove, draws, 1) = new}
            IN  /\ producing # {}
                /\ \A draws \in producing :
                      \A i \in 2 .. Len(new) :
                          ~FallbackFlags(lastMove, draws, 1)[i] =>
                              ~IsInverseOf(new[i - 1], new[i])
      ]_vars

\* C11 witness: a scramble call has just generated two moves on the same axis
\* and layer, the second drawn (it is not the fallback move) and turning the
\* same way as the first.
C11_Witness ==
    /\ lastCall = "scramble"
    /\ Len(history) = 2
    /\ moveQueue = history
    /\ history[2] = history[1]
    /\ history[2] # FallbackMove

\* C12: the promise of a scramble call, or of a solve call with a non-empty
\* History, resolves only in a state where the queue is empty and no move is
\* animating, however timer firings and ticks interleave: a step that clears a
\* polling timer starts and ends in such a state.
C12_ResolvesOnlyWhenDrained ==
    [][ intervals' < intervals =>
            /\ Len(moveQueue) = 0 /\ ~isAnimating
            /\ Len(moveQueue') = 0 /\ ~isAnimating'
      ]_vars

\* C12 witness: two calls were pending at once and the promise of one has
\* resolved, after the last move of the batch finished; the timer of the other
\* is still alive.
C12_Witness ==
    /\ lastCall = "scramble"
    /\ intervals = 1
    /\ speed = ANIMATION_SPEED_NORMAL
    /\ progress = HALF_PI
    /\ nGenerated = MaxMoves
    /\ Settled

C14_CallbackPerCompletedMove ==
    [][ /\ FinishStep =>
              /\ ~isAnimating' /\ currentMove' = NoMove
              /\ moveCount' = Len(history') + Len(moveQueue')
        /\ ~FinishStep => moveCount' = moveCount
      ]_vars

\* C14 witness: a move has just finished while another one is still pending,
\* and the callback received the length of History plus that of the queue.
C14_Witness ==
    /\ ~isAnimating
    /\ progress = HALF_PI
    /\ Len(moveQueue) >= 1
    /\ Len(history) >= 1
    /\ moveCount = Len(history) + Len(moveQueue)

\* C15: solve countdown.  With every call awaited, solve() is called with
\* History of length N >= 1 when the value last reported is N; each move of the
\* solve that finishes reports one less than the value before it, which is the
\* number of undo moves still pending; and once the solve has drained the value
\* is 0 and equals getHistoryLength().
C15_SolveCountdown ==
    [][ /\ SolveCallStep => (Settled /\ moveCount = Len(history))
        /\ (FinishStep /\ lastCall = "solve") =>
              (moveCount' = moveCount - 1 /\ moveCount' = Len(moveQueue'))
        /\ (lastCall' = "solve" /\ Settled') =>
              (moveCount' = 0 /\ moveCount' = Len(history'))
      ]_vars

\* C15 witness: solve() was called with two moves in History and its first
\* undo move has finished: 1 was reported and one undo move is pending.
C15_Witness ==
    /\ lastCall = "solve"
    /\ ~isAnimating
    /\ progress = HALF_PI
    /\ Len(moveQueue) = 1
    /\ Len(history) = 0
    /\ moveCount = 1

\* C16: while a scramble called in a settled state runs, the value passed to
\* onMoveComplete when a move finishes is the number of moves made so far: the
\* moves in History less those still pending in the queue (h + k after the
\* k-th move of scramble(N) called with h moves in History).
C16_ScrambleReportsMovesMade ==
    [][ (FinishStep /\ lastCall = "scramble") =>
            moveCount' = Len(history') - Len(moveQueue')
      ]_vars

\* C17: reset(), called in any state, leaves the queue and History empty, the
\* engine IDLE with no current move and the pivot rotation at identity, and
\* changes no cubie's stored position, orientation or parent; the state stays
\* so until the next call.
C17_ResetFrame ==
    [][ lastCall' = "reset" =>
            /\ Len(moveQueue') = 0 /\ Len(history') = 0
            /\ ~isAnimating' /\ currentMove' = NoMove
            /\ pivotRotation' = ZeroRotation
            /\ cubies' = cubies
      ]_vars

\* C17 witness: reset() was called on a settled scrambled cube: History is
\* gone and the cube is still scrambled.
C17_Witness ==
    /\ lastCall = "reset"
    /\ Len(history) = 0
    /\ progress = HALF_PI
    /\ PivotChildren(cubies) = {}
    /\ cubies # InitialCubies

\* C18: move inverse law.  From any settled state, running a move M =
\* (axis, layer, dir) to completion and then (axis, layer, -dir) to completion
\* returns each of the 27 cubies to the position and orientation it had before
\* M.
C18_MoveInverseLaw ==
    Settled =>
        \A m \in Moves :
            LET inverse == [axis |-> m.axis, layer |-> m.layer, dir |-> -m.dir]
                after == CompleteMove(CompleteMove(cubies, m), inverse)
            IN  \A id \in Ids :
                    /\ after[id].position = cubies[id].position
                    /\ after[id].rotation = cubies[id].rotation

\* C19 as stated: reset() called while a move is in flight leaves the cubies of
\* the in-flight layer in the partially rotated pose reached so far: they stay
\* children of the pivot with their stored pose, and the pivot keeps its
\* partial rotation.
C19_ResetKeepsPartialPose ==
    [][ (lastCall' = "reset" /\ isAnimating /\ progress > 0) =>
            /\ cubies' = cubies
            /\ pivotRotation' = pivotRotation
            /\ ~isAnimating'
      ]_vars

\* C19, amended: reset() called while a move is in flight abandons the move
\* without completing it, and the layer goes back to its pre-move pose: the
\* cubies kept their stored position and orientation when they were attached
\* and while the move animated, reset() changes no cubie (the layer stays
\* under the pivot, unsnapped) and sets the pivot rotation to identity, and the
\* engine is IDLE with no current move until the next call.
C19_ResetReturnsLayerToPreMovePose ==
    [][ /\ StartStep =>
              \A id \in Ids : /\ cubies'[id].position = cubies[id].position
                              /\ cubies'[id].rotation = cubies[id].rotation
        /\ (isAnimating /\ isAnimating') => cubies' = cubies
        /\ (lastCall' = "reset" /\ isAnimating) =>
              /\ cubies' = cubies
              /\ PivotChildren(cubies') # {}
              /\ pivotRotation' = ZeroRotation
              /\ ~isAnimating' /\ currentMove' = NoMove
        /\ lastCall' = "reset" => ~isAnimating'
      ]_vars

\* C19 witness: reset() was called in the middle of a move: the 9 cubies of
\* its layer are children of the pivot, the pivot rotation is identity and
\* progress stopped short of the quarter turn.
C19_Witness ==
    /\ lastCall = "reset"
    /\ progress > 0
    /\ progress < HALF_PI
    /\ Cardinality(PivotChildren(cubies)) = 9
    /\ pivotRotation = ZeroRotation
    /\ ~isAnimating

\* C20: speed mode.  Whenever a move is pending or animating the speed is the
\* fast one, so every move of a scramble or solve batch is animated at the
\* fast speed from the call on; a step that resolves a call's promise leaves
\* the speed normal; and the speed becomes normal only in a step taken in a
\* state where the queue is empty and no move is animating.
C20_SpeedMode ==
    [][ /\ (ScrambleCallStep \/ SolveCallStep) => speed' = ANIMATION_SPEED_FAST
        /\ (Len(moveQueue') > 0 \/ isAnimating') => speed' = ANIMATION_SPEED_FAST
        /\ intervals' < intervals => speed' = ANIMATION_SPEED_NORMAL
        /\ (speed' = ANIMATION_SPEED_NORMAL /\ speed # ANIMATION_SPEED_NORMAL) =>
              (Settled /\ Settled')
      ]_vars

\* C20 witness: the second undo move of a solve is animating, one frame in, at
\* the fast speed.
C20_Witness ==
    /\ lastCall = "solve"
    /\ isAnimating
    /\ Len(moveQueue) = 0
    /\ nGenerated = MaxMoves
    /\ speed = ANIMATION_SPEED_FAST
    /\ progress = ANIMATION_SPEED_FAST

\* C21: in a scramble call, a generated move is the exact inverse of the move
\* before it (the move generated before it or, for the first one, the last
\* move already in History) only when it is (x, +1, +1) pushed by the fallback
\* and the move before it is (x, +1, -1); a move accepted from one of the
\* random attempts is never the inverse of the move before it.
C21_OnlyFallbackUndoes ==
    [][ ScrambleCallStep =>
            LET lastMove == IF Len(history) > 0 THEN history[Len(history)] ELSE NoMove
                new == SubSeq(history', Len(history) + 1, Len(history'))
                before(i) == IF i = 1 THEN lastMove ELSE new[i - 1]
                producing == {draws \in [1 .. Len(new) -> CandidateDraws] :
                                 GenerateMoves(lastMove, draws, 1) = new}
            IN  \A i \in 1 .. Len(new) :
                    (before(i) # NoMove /\ IsInverseOf(before(i), new[i])) =>
                        /\ new[i] = [axis |-> "x", layer |-> 1, dir |-> 1]
                        /\ before(i) = [axis |-> "x", layer |-> 1, dir |-> -1]
                        /\ producing # {}
                        /\ \A draws \in producing :
                              FallbackFlags(lastMove, draws, 1)[i]
      ]_vars

\* C21 witness: History ended with (x, +1, -1) and a scramble call has just
\* pushed one move, the fallback (x, +1, +1), its inverse.
C21_Witness ==
    /\ lastCall = "scramble"
    /\ Len(history) = 2
    /\ Len(moveQueue) = 1
    /\ history[1] = [axis |-> "x", layer |-> 1, dir |-> -1]
    /\ history[2] = [axis |-> "x", layer |-> 1, dir |-> 1]
    /\ moveQueue[1] = history[2]

\* C22: solve() overlapping a scramble is still an exact undo.  Starting from
\* the solved cube, with one scramble call, solve() called while moves of it
\* are pending or in flight, and no reset: once the queue has drained, every
\* cubie is at its solved position and orientation and History is empty.
C22_OverlappingSolveUndoes ==
    (lastCall = "solve" /\ Settled) =>
        /\ \A id \in Ids : /\ cubies[id].position = initialPositions[id]
                           /\ cubies[id].rotation = ZeroRotation
        /\ Len(history) = 0

\* C22 witness: solve() was called while moves of a scramble of two were
\* pending or in flight, and the queue has drained since: the last move
\* finished and reported 0.
C22_Witness ==
    /\ lastCall = "solve"
    /\ Settled
    /\ nGenerated = MaxMoves
    /\ progress = HALF_PI
    /\ moveCount = 0
    /\ cubies = InitialCubies

====
